---- MODULE Spec2Model ----
(***************************************************************************)
(* A model of the zchecker catalog store (schema.py) and of the ZChecker   *)
(* operations that write to it (zchecker.py).                              *)
(*                                                                         *)
(* Tables are sets of rows (records); a row carries the columns the        *)
(* operations read or write.  Every INSERT of zchecker.py supplies fewer   *)
(* values than schema.py declares columns (nights 2 of 3, obs 34 of 35,    *)
(* eph 7 of 8, found 13 of 30); the model binds the supplied values to the *)
(* columns they are computed for and leaves the others NULL, the rowid     *)
(* alias (nightid, foundid) being assigned by the store.                   *)
(*                                                                         *)
(* Epochs (Julian dates) are small integers, in units of the step of the   *)
(* ephemeris grid (6 hours).  UT dates are numbered; the provider assigns  *)
(* each exposure to the night of a date.  The start and end of             *)
(* update_ephemeris, clean_ephemeris and clean_found are given as the      *)
(* epochs Time(start).jd and Time(end).jd.                                 *)
(***************************************************************************)
EXTENDS Integers, Sequences, FiniteSets, TLC

VARIABLES nights, obs, eph, found, projections, stacks, stale_files, pc, run, op

vars == <<nights, obs, eph, found, projections, stacks, stale_files, pc, run, op>>

\* SQL NULL in a text column
NULL == "NULL"

\* Python None for a start or end argument (epochs and dates start at 1)
None == 0

(* ---- bounds ---------------------------------------------------------- *)
MaxJd == 3

MaxDate == 2

MaxPid == 3

MaxNightId == 3

MaxFoundId == 2

MaxStale == 2

Jds == 1..MaxJd

Dates == 1..MaxDate

Pids == 1..MaxPid

Desgs == {"9P", "101P"}

Vals == {"v0", "v1"}

(* ---- helpers --------------------------------------------------------- *)
Range(s) == {s[i] : i \in DOMAIN s}

\* the object lists of the calls: no object, one object, both objects
ObjectLists == {<<>>, <<"9P">>, <<"101P">>, <<"9P", "101P">>}

Max(S) == CHOOSE m \in S : \A x \in S : x <= m

Min(S) == CHOOSE m \in S : \A x \in S : m <= x

(***************************************************************************)
(* eph table: rows [desg, jd, val]; val stands for ra, dec, dra, ddec,     *)
(* vmag and retrieved.                                                     *)
(***************************************************************************)

\* the rows a "WHERE desg=? AND jd >= ? AND jd <= ?" selects
EphInRange(e, desg, jd_start, jd_end) ==
    {r \in e : r.desg = desg /\ r.jd >= jd_start /\ r.jd <= jd_end}

\* faulty variant: the lower bound is exclusive
eph_delete_range_excl(e, obj, jd_start, jd_end) ==
    e \ {r \in e : r.desg = obj /\ r.jd > jd_start /\ r.jd <= jd_end}

\* DELETE FROM eph WHERE desg=? AND jd >= ? AND jd <= ?
eph_delete_range(e, obj, jd_start, jd_end) ==
    e \ EphInRange(e, obj, jd_start, jd_end)

\* INSERT OR IGNORE INTO eph, under the unique index desg_jd
eph_insert_or_ignore(e, row) ==
    IF \E r \in e : r.desg = row.desg /\ r.jd = row.jd THEN e ELSE e \cup {row}

RECURSIVE eph_executemany(_, _)
eph_executemany(e, rows) ==
    IF rows = <<>> THEN e
    ELSE eph_executemany(eph_insert_or_ignore(e, Head(rows)), Tail(rows))

\* the provider's answer for [start, end]: one sample per epoch of the range
eph_update(obj, start, end, v) ==
    [i \in 1..(end - start + 1) |-> [desg |-> obj, jd |-> start + i - 1, val |-> v]]

ProviderAnswers == {"ZCheckerError"} \cup Vals

\* "if c > 2: continue" of the verifying mode
eph_exists(e, obj, jd_start, jd_end, update) ==
    ~update /\ Cardinality(EphInRange(e, obj, jd_start, jd_end)) > 2

\* one pass of the loop body of update_ephemeris; st = [eph, updated]
update_ephemeris_object(st, obj, jd_start, jd_end, update, answer) ==
    IF eph_exists(st.eph, obj, jd_start, jd_end, update)
    THEN st
    ELSE LET deleted == eph_delete_range(st.eph, obj, jd_start, jd_end)
         IN  [eph     |-> IF answer = "ZCheckerError"
                          THEN deleted
                          ELSE eph_executemany(deleted,
                                   eph_update(obj, jd_start, jd_end, answer)),
              updated |-> st.updated + 1]

RECURSIVE update_ephemeris_loop(_, _, _, _, _, _)
update_ephemeris_loop(st, objects, jd_start, jd_end, update, resp) ==
    IF objects = <<>> THEN st
    ELSE update_ephemeris_loop(
             update_ephemeris_object(st, Head(objects), jd_start, jd_end,
                                     update, resp[Head(objects)]),
             Tail(objects), jd_start, jd_end, update, resp)

update_ephemeris(objects, start, end, update, resp) ==
    /\ pc = "idle"
    /\ LET st == update_ephemeris_loop([eph |-> eph, updated |-> 0], objects,
                                       start, end, update, resp)
       IN  /\ eph' = st.eph
           /\ op' = [name |-> "update_ephemeris", objects |-> objects,
                     start |-> start, end |-> end, update |-> update,
                     resp |-> resp, updated |-> st.updated]
    /\ pc' = "done"
    /\ UNCHANGED <<nights, obs, found, projections, stacks, stale_files, run>>

\* the WHERE clause clean_ephemeris builds for the four range modes
clean_ephemeris_cmd(r, obj, jd_start, jd_end) ==
    IF jd_start # None /\ jd_end # None
    THEN r.desg = obj /\ r.jd >= jd_start /\ r.jd <= jd_end
    ELSE IF jd_start = None /\ jd_end # None
    THEN r.desg = obj /\ r.jd <= jd_end
    ELSE IF jd_end = None /\ jd_start # None
    THEN r.desg = obj /\ r.jd >= jd_start
    ELSE r.desg = obj

\* faulty variant: the count query ignores the upper bound
clean_ephemeris_count_noend(e, obj, jd_start, jd_end) ==
    Cardinality({r \in e : clean_ephemeris_cmd(r, obj, jd_start, None)})

\* SELECT count() FROM eph WHERE ...
clean_ephemeris_count(e, obj, jd_start, jd_end) ==
    Cardinality({r \in e : clean_ephemeris_cmd(r, obj, jd_start, jd_end)})

\* DELETE FROM eph WHERE ...
clean_ephemeris_delete(e, obj, jd_start, jd_end) ==
    {r \in e : ~clean_ephemeris_cmd(r, obj, jd_start, jd_end)}

\* st = [eph, n]: n is the sequence of counts logged, one per object
RECURSIVE clean_ephemeris_loop(_, _, _, _)
clean_ephemeris_loop(st, objects, jd_start, jd_end) ==
    IF objects = <<>> THEN st
    ELSE clean_ephemeris_loop(
             [eph |-> clean_ephemeris_delete(st.eph, Head(objects), jd_start, jd_end),
              n   |-> Append(st.n, clean_ephemeris_count(st.eph, Head(objects),
                                                         jd_start, jd_end))],
             Tail(objects), jd_start, jd_end)

clean_ephemeris(objects, start, end) ==
    /\ pc = "idle"
    /\ LET st == clean_ephemeris_loop([eph |-> eph, n |-> <<>>], objects, start, end)
       IN  /\ eph' = st.eph
           /\ op' = [name |-> "clean_ephemeris", objects |-> objects,
                     start |-> start, end |-> end, n |-> st.n]
    /\ pc' = "done"
    /\ UNCHANGED <<nights, obs, found, projections, stacks, stale_files, run>>


(***************************************************************************)
(* The store: nights [nightid, date, nframes], obs [nightid, pid, obsjd,   *)
(* val], found [foundid, desg, pid, val, archivefile], projections         *)
(* [foundid], stacks [foundid, stackfile], stale_files <<[path,            *)
(* archivefile]>>.  val stands for the columns an INSERT supplies besides  *)
(* the keys.  db is the record of the six tables.                          *)
(***************************************************************************)

\* the rowid SQLite gives a row inserted without one
NewRowid(ids) == IF ids = {} THEN 1 ELSE Max(ids) + 1

\* the rows of a result set in the order the store visits them: by rowid
\* (foundid, pid, nightid)
RECURSIVE FoundSeq(_)
FoundSeq(rows) ==
    IF rows = {} THEN <<>>
    ELSE LET r == CHOOSE x \in rows : \A y \in rows : x.foundid <= y.foundid
         IN  <<r>> \o FoundSeq(rows \ {r})

RECURSIVE PidSeq(_)
PidSeq(rows) ==
    IF rows = {} THEN <<>>
    ELSE LET r == CHOOSE x \in rows : \A y \in rows : x.pid <= y.pid
         IN  <<r>> \o PidSeq(rows \ {r})

RECURSIVE NightSeq(_)
NightSeq(rows) ==
    IF rows = {} THEN <<>>
    ELSE LET r == CHOOSE x \in rows : \A y \in rows : x.nightid <= y.nightid
         IN  <<r>> \o NightSeq(rows \ {r})

\* the rows an INSERT ... SELECT appends, the SELECT being on a primary key
RECURSIVE Selected(_)
Selected(rows) ==
    IF rows = {} THEN <<>>
    ELSE LET r == CHOOSE x \in rows : TRUE IN <<r>> \o Selected(rows \ {r})

\* faulty variant: the trigger logs the cutout whatever archivefile holds
delete_found_trigger_lognull(db, old) ==
    [db EXCEPT
       !.stale_files = db.stale_files
          \o [i \in 1..Cardinality({f \in db.found : f.foundid = old.foundid})
                |-> [path |-> "cutout path", archivefile |-> old.archivefile]]
          \o Selected({[path |-> "stack path", archivefile |-> k.stackfile] :
                       k \in {k \in db.stacks : k.foundid = old.foundid
                                                 /\ k.stackfile # NULL}}),
       !.projections = {j \in db.projections : j.foundid # old.foundid},
       !.stacks = {k \in db.stacks : k.foundid # old.foundid}]

\* the body of TRIGGER delete_found BEFORE DELETE ON found
delete_found_trigger(db, old) ==
    [db EXCEPT
       !.stale_files = db.stale_files
          \o Selected({[path |-> "cutout path", archivefile |-> f.archivefile] :
                       f \in {f \in db.found : f.foundid = old.foundid
                                                /\ f.archivefile # NULL}})
          \o Selected({[path |-> "stack path", archivefile |-> k.stackfile] :
                       k \in {k \in db.stacks : k.foundid = old.foundid
                                                 /\ k.stackfile # NULL}}),
       !.projections = {j \in db.projections : j.foundid # old.foundid},
       !.stacks = {k \in db.stacks : k.foundid # old.foundid}]

\* DELETE FROM found of the rows given (a sequence): per row, the trigger
\* and then the row's removal
RECURSIVE delete_from_found(_, _)
delete_from_found(db, rows) ==
    IF rows = <<>> THEN db
    ELSE LET t == delete_found_trigger(db, Head(rows))
         IN  delete_from_found([t EXCEPT !.found = t.found \ {Head(rows)}], Tail(rows))

\* faulty variant: the trigger deletes nothing
delete_obs_trigger_none(db, old) == db

\* the body of TRIGGER delete_obs BEFORE DELETE ON obs
delete_obs_trigger(db, old) ==
    delete_from_found(db, FoundSeq({f \in db.found : f.pid = old.pid}))

RECURSIVE delete_from_obs(_, _)
delete_from_obs(db, rows) ==
    IF rows = <<>> THEN db
    ELSE LET t == delete_obs_trigger(db, Head(rows))
         IN  delete_from_obs([t EXCEPT !.obs = t.obs \ {Head(rows)}], Tail(rows))

\* faulty variant: the trigger deletes nothing
delete_nights_trigger_none(db, old) == db

\* the body of TRIGGER delete_nights BEFORE DELETE ON nights
delete_nights_trigger(db, old) ==
    delete_from_obs(db, PidSeq({o \in db.obs : o.nightid = old.nightid}))

RECURSIVE delete_from_nights(_, _)
delete_from_nights(db, rows) ==
    IF rows = <<>> THEN db
    ELSE LET t == delete_nights_trigger(db, Head(rows))
         IN  delete_from_nights([t EXCEPT !.nights = t.nights \ {Head(rows)}],
                                Tail(rows))

DB == [nights |-> nights, obs |-> obs, found |-> found,
       projections |-> projections, stacks |-> stacks, stale_files |-> stale_files]

\* the six tables take the values of db, within the bound of the log
Store(db) ==
    /\ Len(db.stale_files) <= MaxStale
    /\ nights' = db.nights
    /\ obs' = db.obs
    /\ found' = db.found
    /\ projections' = db.projections
    /\ stacks' = db.stacks
    /\ stale_files' = db.stale_files

\* the rows a statement removed from obs and from found, with its triggers
Changes(db) == [obs   |-> Cardinality(obs) - Cardinality(db.obs),
                found |-> Cardinality(found) - Cardinality(db.found)]

\* DELETE FROM nights WHERE nightid=?
delete_nights(id) ==
    /\ pc = "idle"
    /\ \E r \in nights : r.nightid = id
    /\ LET db == delete_from_nights(DB, NightSeq({r \in nights : r.nightid = id}))
       IN  /\ Store(db)
           /\ op' = [name |-> "delete_nights", nightid |-> id, changes |-> Changes(db)]
    /\ pc' = "done"
    /\ UNCHANGED <<eph, run>>

\* DELETE FROM obs WHERE pid=?
delete_obs(pid) ==
    /\ pc = "idle"
    /\ \E r \in obs : r.pid = pid
    /\ LET db == delete_from_obs(DB, PidSeq({r \in obs : r.pid = pid}))
       IN  /\ Store(db)
           /\ op' = [name |-> "delete_obs", pid |-> pid, changes |-> Changes(db)]
    /\ pc' = "done"
    /\ UNCHANGED <<eph, run>>

(* ---- update_obs ------------------------------------------------------ *)

\* the exposures of the survey: pid's epoch, and the UT date of its night
ObsJd(pid) == (pid + 1) \div 2

DateOf(pid) == ObsJd(pid)

\* ztf.query for the night of date: rows of some of that night's exposures,
\* by ascending pid
ztf_query(pids, v) ==
    PidSeq({[pid |-> p, obsjd |-> ObsJd(p), val |-> v] : p \in pids})

\* INSERT OR REPLACE INTO nights: the row of the same date goes, without
\* its delete trigger, and the new row takes a fresh rowid
nights_insert_or_replace(n, date, nframes) ==
    {r \in n : r.date # date}
       \cup {[nightid |-> NewRowid({r.nightid : r \in n}),
              date |-> date, nframes |-> nframes]}

\* ZChecker.nightid: NULL (here 0) when the date has no row
nightid(n, date) ==
    IF \E r \in n : r.date = date
    THEN (CHOOSE r \in n : r.date = date).nightid
    ELSE None

\* faulty variant: INSERT OR REPLACE INTO obs
obs_insert_or_replace(o, row) == {r \in o : r.pid # row.pid} \cup {row}

\* INSERT OR IGNORE INTO obs, pid being the primary key
obs_insert_or_ignore(o, row) ==
    IF \E r \in o : r.pid = row.pid THEN o ELSE o \cup {row}

RECURSIVE obs_executemany(_, _, _)
obs_executemany(o, id, tab) ==
    IF tab = <<>> THEN o
    ELSE obs_executemany(
             obs_insert_or_ignore(o, [nightid |-> id, pid |-> Head(tab).pid,
                                      obsjd |-> Head(tab).obsjd,
                                      val |-> Head(tab).val]),
             id, Tail(tab))

update_obs(date, tab) ==
    /\ pc = "idle"
    /\ NewRowid({r.nightid : r \in nights}) <= MaxNightId
    /\ nights' = nights_insert_or_replace(nights, date, Len(tab))
    /\ obs' = obs_executemany(obs, nightid(nights', date), tab)
    /\ pc' = "done"
    /\ op' = [name |-> "update_obs", date |-> date, tab |-> tab]
    /\ UNCHANGED <<eph, found, projections, stacks, stale_files, run>>

(* ---- fov_search ------------------------------------------------------ *)

\* the obsnight view: obs INNER JOIN nights ON obs.nightid=nights.nightid,
\* here the obs rows of the join whose night has start <= date <= end
obsnight(o, n, start, end) ==
    {r \in o : \E x \in n : /\ x.nightid = r.nightid
                            /\ x.date >= start
                            /\ x.date <= end}

\* faulty variant: the end of the range moved two days on
fov_search_jd_wide(o, n, start, end) == {r.obsjd : r \in obsnight(o, n, start, end + 2)}

\* SELECT DISTINCT obsjd FROM obsnight WHERE date>=? AND date<=?, the end
\* of the range moved one day on
fov_search_jd(o, n, start, end) == {r.obsjd : r \in obsnight(o, n, start, end + 1)}

\* _get_quads: the rows of obs at one epoch of the range
quads(o, jd) == {r \in o : r.obsjd = jd}

\* faulty variant: a plain INSERT into a table without the unique index
found_insert_plain(f, desg, pid, v) ==
    f \cup {[foundid |-> NewRowid({r.foundid : r \in f}), desg |-> desg,
             pid |-> pid, val |-> v, archivefile |-> NULL]}

\* faulty variant: INSERT OR IGNORE
found_insert_or_ignore(f, desg, pid, v) ==
    IF \E r \in f : r.desg = desg /\ r.pid = pid THEN f
    ELSE found_insert_plain(f, desg, pid, v)

\* INSERT OR REPLACE INTO found, under the unique index desg_pid: the row
\* of the same (desg, pid) goes, without its delete trigger, and the new
\* row takes a fresh rowid; the columns not supplied are NULL
found_insert_or_replace(f, desg, pid, v) ==
    {r \in f : ~(r.desg = desg /\ r.pid = pid)}
       \cup {[foundid |-> NewRowid({r.foundid : r \in f}), desg |-> desg,
              pid |-> pid, val |-> v, archivefile |-> NULL]}

\* the loop over the objects at one epoch; st = [found, found_objects,
\* replaced], replaced counting the rows the REPLACE removed.
\* hits[obj] is what the tests of the epoch give for obj: pid = None when
\* the object is masked or rejected, else the quadrant and the values of
\* the Detection _silicon_test returns
RECURSIVE fov_search_objects(_, _, _)
fov_search_objects(st, objects, hits) ==
    IF objects = <<>> THEN st
    ELSE LET obj == Head(objects)
             h   == hits[obj]
         IN  fov_search_objects(
                 IF h.pid = None THEN st
                 ELSE LET f == found_insert_or_replace(st.found, obj, h.pid, h.val)
                      IN  [found |-> f,
                           found_objects |->
                               [st.found_objects EXCEPT ![obj] = st.found_objects[obj] + 1],
                           replaced |-> st.replaced + Cardinality(st.found) + 1
                                           - Cardinality(f)],
                 Tail(objects), hits)

\* what the tests of an epoch can give for one object
Hits(o, jd, vals) == {[pid |-> None, val |-> "v0"]}
                       \cup {[pid |-> q.pid, val |-> v] : q \in quads(o, jd), v \in vals}

NoHits(objects) == [obj \in Range(objects) |-> [pid |-> None, val |-> "v0"]]

\* run: the local state of a search.  objects, todo (the epochs still to
\* process), found_objects; jd, hits and replaced describe the epoch
\* processed last
NoRun == [objects |-> <<>>]

\* the start of fov_search, up to the first epoch
fov_search_begin(start, end, objects) ==
    /\ pc = "idle"
    /\ LET jd == fov_search_jd(obs, nights, start, end)
       IN  IF jd = {}
           THEN /\ pc' = "done"
                /\ op' = [name |-> "fov_search", start |-> start, end |-> end,
                          raised |-> "DateRangeError"]
                /\ run' = run
           ELSE /\ pc' = "search"
                /\ op' = [name |-> "fov_search", start |-> start, end |-> end,
                          raised |-> "none"]
                /\ run' = [objects |-> objects, todo |-> jd,
                           found_objects |-> [obj \in Range(objects) |-> 0],
                           jd |-> None, hits |-> NoHits(objects), replaced |-> 0]
    /\ UNCHANGED <<nights, obs, eph, found, projections, stacks, stale_files>>

\* one pass of the loop over the epochs, with its commit
fov_search_epoch(jd, hits) ==
    /\ pc = "search"
    /\ jd \in run.todo
    /\ LET st == fov_search_objects([found |-> found,
                                     found_objects |-> run.found_objects,
                                     replaced |-> 0],
                                    run.objects, hits)
       IN  /\ \A r \in st.found : r.foundid <= MaxFoundId
           /\ found' = st.found
           /\ run' = [run EXCEPT !.todo = run.todo \ {jd},
                                 !.found_objects = st.found_objects,
                                 !.jd = jd, !.hits = hits,
                                 !.replaced = st.replaced]
    /\ UNCHANGED <<nights, obs, eph, projections, stacks, stale_files, pc, op>>

\* the end of fov_search: the summary
fov_search_summary ==
    /\ pc = "search"
    /\ run.todo = {}
    /\ pc' = "done"
    /\ op' = [name |-> "fov_search",
              raised |-> "none", found_objects |-> run.found_objects]
    /\ run' = NoRun
    /\ UNCHANGED <<nights, obs, eph, found, projections, stacks, stale_files>>

\* the process is terminated during a search
terminate ==
    /\ pc = "search"
    /\ pc' = "idle"
    /\ op' = [name |-> "none"]
    /\ run' = NoRun
    /\ UNCHANGED <<nights, obs, eph, found, projections, stacks, stale_files>>

(* ---- clean_found ----------------------------------------------------- *)

\* the WHERE clause clean_found builds for the four range modes
clean_found_cmd(db, r, obj, jd_start, jd_end) ==
    IF jd_start # None /\ jd_end # None
    THEN r.desg = obj /\ r.pid \in {o.pid : o \in {o \in db.obs :
                                      o.obsjd >= jd_start /\ o.obsjd <= jd_end}}
    ELSE IF jd_start = None /\ jd_end # None
    THEN r.desg = obj /\ r.pid \in {o.pid : o \in {o \in db.obs : o.obsjd <= jd_end}}
    ELSE IF jd_end = None /\ jd_start # None
    THEN r.desg = obj /\ r.pid \in {o.pid : o \in {o \in db.obs : o.obsjd >= jd_start}}
    ELSE r.desg = obj

\* SELECT count() FROM found WHERE ...
clean_found_count(db, obj, jd_start, jd_end) ==
    Cardinality({r \in db.found : clean_found_cmd(db, r, obj, jd_start, jd_end)})

\* DELETE FROM found WHERE ...
clean_found_delete(db, obj, jd_start, jd_end) ==
    delete_from_found(db,
        FoundSeq({r \in db.found : clean_found_cmd(db, r, obj, jd_start, jd_end)}))

\* st = [db, n]: n is the sequence of counts logged, one per object
RECURSIVE clean_found_loop(_, _, _, _)
clean_found_loop(st, objects, jd_start, jd_end) ==
    IF objects = <<>> THEN st
    ELSE clean_found_loop(
             [db |-> clean_found_delete(st.db, Head(objects), jd_start, jd_end),
              n  |-> Append(st.n, clean_found_count(st.db, Head(objects),
                                                    jd_start, jd_end))],
             Tail(objects), jd_start, jd_end)

clean_found(objects, start, end) ==
    /\ pc = "idle"
    /\ LET st == clean_found_loop([db |-> DB, n |-> <<>>], objects, start, end)
       IN  /\ Store(st.db)
           /\ op' = [name |-> "clean_found", objects |-> objects,
                     start |-> start, end |-> end, n |-> st.n]
    /\ pc' = "done"
    /\ UNCHANGED <<eph, run>>

(* ---- the artifacts of a Detection ------------------------------------ *)

\* the file names of the cutout and of the stack of a designation
CutoutFile(desg) == IF desg = "9P" THEN "9p-ztf.fits.gz" ELSE "101p-ztf.fits.gz"

StackFile(desg) == IF desg = "9P" THEN "9p-stack.fits" ELSE "101p-stack.fits"

\* the cutout of a Detection is archived: found.archivefile is set
set_archivefile(id) ==
    /\ pc = "idle"
    /\ \E r \in found : /\ r.foundid = id
                        /\ r.archivefile = NULL
                        /\ found' = (found \ {r})
                              \cup {[r EXCEPT !.archivefile = CutoutFile(r.desg)]}
    /\ pc' = "done"
    /\ op' = [name |-> "set_archivefile", foundid |-> id]
    /\ UNCHANGED <<nights, obs, eph, projections, stacks, stale_files, run>>

\* zproject: a projections row for a Detection
insert_projection(id) ==
    /\ pc = "idle"
    /\ \E r \in found : r.foundid = id
    /\ \A j \in projections : j.foundid # id
    /\ projections' = projections \cup {[foundid |-> id]}
    /\ pc' = "done"
    /\ op' = [name |-> "insert_projection", foundid |-> id]
    /\ UNCHANGED <<nights, obs, eph, found, stacks, stale_files, run>>

\* zstack: a stacks row for a Detection, with or without a stack file
insert_stack(id, stacked) ==
    /\ pc = "idle"
    /\ \A k \in stacks : k.foundid # id
    /\ \E r \in found : /\ r.foundid = id
                        /\ stacks' = stacks \cup
                              {[foundid |-> id,
                                stackfile |-> IF stacked THEN StackFile(r.desg)
                                              ELSE NULL]}
    /\ pc' = "done"
    /\ op' = [name |-> "insert_stack", foundid |-> id]
    /\ UNCHANGED <<nights, obs, eph, found, projections, stale_files, run>>

(* ---- initial state --------------------------------------------------- *)
Init ==
    /\ nights = {}
    /\ obs = {}
    /\ eph = {}
    /\ found = {}
    /\ projections = {}
    /\ stacks = {}
    /\ stale_files = <<>>
    /\ pc = "idle"
    /\ run = NoRun
    /\ op = [name |-> "none"]

\* the call has returned: its report (op) is handed to the caller, who may
\* now make the next call
Return ==
    /\ pc = "done"
    /\ pc' = "idle"
    /\ op' = [name |-> "none"]
    /\ UNCHANGED <<nights, obs, eph, found, projections, stacks, stale_files, run>>

\* the rows ztf.query returns for the whole night of a date
Night(date) == ztf_query({p \in Pids : DateOf(p) = date}, "v0")

\* the steps of a search, the Detections carrying values of vals
fov_search(objectlists, vals) ==
    \/ \E start \in Dates, end \in Dates, objects \in objectlists :
         /\ start <= end
         /\ fov_search_begin(start, end, objects)
    \/ \E jd \in Jds :
         \E hits \in [Range(run.objects) -> Hits(obs, jd, vals)] :
            fov_search_epoch(jd, hits)
    \/ fov_search_summary
    \/ terminate

(***************************************************************************)
(* Spec: the cascades of the store.  Nights are ingested whole and         *)
(* re-ingested, nights and exposures are deleted, one object is searched   *)
(* for, its Detections are archived and cleaned.                           *)
(***************************************************************************)
Next ==
    \/ \E date \in Dates : update_obs(date, Night(date))
    \/ \E id \in 1..MaxNightId : delete_nights(id)
    \/ \E pid \in Pids : delete_obs(pid)
    \/ fov_search({<<"9P">>}, {"v0"})
    \/ \E start \in Jds \cup {None}, end \in Jds \cup {None} :
         clean_found(<<"9P">>, start, end)
    \/ \E id \in 1..MaxFoundId : set_archivefile(id)
    \/ Return

Spec == Init /\ [][Next]_vars

(***************************************************************************)
(* SpecObs: the ingestion of exposures.  The provider returns any part of  *)
(* a night, with either value of the columns.                              *)
(***************************************************************************)
NextObs ==
    \/ \E date \in Dates, v \in Vals :
         \E pids \in SUBSET {p \in Pids : DateOf(p) = date} :
            update_obs(date, ztf_query(pids, v))
    \/ \E id \in 1..MaxNightId : delete_nights(id)
    \/ \E pid \in Pids : delete_obs(pid)
    \/ Return

SpecObs == Init /\ [][NextObs]_vars

(***************************************************************************)
(* SpecFound: the writing of Detections.  Each night is ingested once,     *)
(* both objects are searched for, the Detections carry either value.       *)
(***************************************************************************)
NextFound ==
    \/ \E date \in Dates :
         /\ nightid(nights, date) = None
         /\ update_obs(date, Night(date))
    \/ fov_search({<<"9P">>, <<"101P">>}, Vals)
    \/ \E objects \in ObjectLists, start \in Jds \cup {None}, end \in Jds \cup {None} :
         clean_found(objects, start, end)
    \/ Return

SpecFound == Init /\ [][NextFound]_vars

(***************************************************************************)
(* SpecArtifacts: the artifacts of the Detections of one object on the     *)
(* first night: cutouts, projections and stacks are made, the Detections   *)
(* are overwritten by new searches and deleted.                            *)
(***************************************************************************)
NextArtifacts ==
    \/ update_obs(1, Night(1))
    \/ \E id \in 1..MaxNightId : delete_nights(id)
    \/ \E pid \in Pids : delete_obs(pid)
    \/ fov_search({<<"9P">>}, {"v0"})
    \/ \E start \in Jds \cup {None}, end \in Jds \cup {None} :
         clean_found(<<"9P">>, start, end)
    \/ \E id \in 1..MaxFoundId : set_archivefile(id)
    \/ \E id \in 1..MaxFoundId : insert_projection(id)
    \/ \E id \in 1..MaxFoundId, stacked \in BOOLEAN : insert_stack(id, stacked)
    \/ Return

SpecArtifacts == Init /\ [][NextArtifacts]_vars

(***************************************************************************)
(* SpecEph: the ephemeris table.  The provider answers with either value   *)
(* or fails.                                                               *)
(***************************************************************************)
NextEph ==
    \/ \E objects \in ObjectLists, start \in Jds, end \in Jds, update \in BOOLEAN :
         /\ start <= end
         /\ \E resp \in [Range(objects) -> ProviderAnswers] :
              update_ephemeris(objects, start, end, update, resp)
    \/ \E objects \in ObjectLists, start \in Jds \cup {None}, end \in Jds \cup {None} :
         clean_ephemeris(objects, start, end)
    \/ Return

SpecEph == Init /\ [][NextEph]_vars

(***************************************************************************)
(* SpecClean: the two clean operations.  Each night is ingested once, the  *)
(* ephemerides are refreshed without failure, both objects are searched    *)
(* for; samples and Detections are cleaned for every list and range.       *)
(***************************************************************************)
NextClean ==
    \/ \E date \in Dates :
         /\ nightid(nights, date) = None
         /\ update_obs(date, Night(date))
    \/ fov_search({<<"9P">>, <<"101P">>}, {"v0"})
    \/ \E objects \in ObjectLists, start \in Jds \cup {None}, end \in Jds \cup {None} :
         clean_found(objects, start, end)
    \/ \E objects \in ObjectLists, start \in Jds, end \in Jds :
         /\ start <= end
         /\ update_ephemeris(objects, start, end, TRUE,
                             [obj \in Range(objects) |-> "v0"])
    \/ \E objects \in ObjectLists, start \in Jds \cup {None}, end \in Jds \cup {None} :
         clean_ephemeris(objects, start, end)
    \/ Return

SpecClean == Init /\ [][NextClean]_vars

(***************************************************************************)
(* _get_ephemerides: the stored samples of each object interpolated to the  *)
(* requested epochs.  Sky positions are integers, milliradians on one       *)
(* great circle; there the angular separation of two positions is the       *)
(* absolute value of their difference and the spherical interpolation       *)
(* between two samples is the linear one.                                   *)
(***************************************************************************)

\* the step of the stored ephemeris grid, in hours; it is the unit of the
\* epochs
StepHours == 6

\* one day, in epochs
Day == 24 \div StepHours

\* the largest epoch of the samples and requests the interpolator is given
MaxSample == 6

\* the largest number of epochs requested in one call
MaxReq == 2

SampleJds == 1..MaxSample

\* the lists of distinct requested epochs, in any order
JdLists ==
    {jd \in UNION {[1..n -> SampleJds] : n \in 1..MaxReq} :
        \A j \in DOMAIN jd : \A k \in DOMAIN jd : jd[j] = jd[k] => j = k}

\* the ra column of a sample: the object moves along its track
EphRa(r) == IF r.val = "v0" THEN 5 + 2 * r.jd ELSE 10 + 50 * r.jd

SeqMax(jd) == Max({jd[k] : k \in DOMAIN jd})

SeqMin(jd) == Min({jd[k] : k \in DOMAIN jd})

\* SELECT ra,dec,jd FROM eph WHERE desg=? AND jd>? AND jd<?, the rows in the
\* order of the index desg_jd
RECURSIVE EphSeq(_)
EphSeq(rows) ==
    IF rows = {} THEN <<>>
    ELSE LET r == CHOOSE x \in rows : \A y \in rows : x.jd <= y.jd
         IN  <<r>> \o EphSeq(rows \ {r})

eph_rows(e, obj, jd) ==
    EphSeq({r \in e : r.desg = obj /\ r.jd > SeqMin(jd) - Day /\ r.jd < SeqMax(jd) + Day})

\* np.digitize(x, bins), bins increasing: the number of bins at or below x
digitize(x, bins) == Cardinality({n \in DOMAIN bins : bins[n] <= x})

\* a[i] of a numpy array, i counted from 0 and a negative i from the end;
\* the caller has excluded an i beyond the end
Item(a, i) == IF i < 0 THEN a[Len(a) + i + 1] ELSE a[i + 1]

\* mask[obj] = (i <= 0) * (i >= len(jd))
get_mask(i, jd, eph_jd) ==
    [k \in DOMAIN jd |-> (i[k] <= 0) /\ (i[k] >= Len(jd))]

\* the interpolated position: not a number when the two samples are one
\* sample (a division of zero by zero), else the position on the line
\* through the two samples
interpolate(rows, i, jd) ==
    [k \in DOMAIN jd |->
       LET a  == Item(rows, i[k] - 1)
           b  == Item(rows, i[k])
       IN  IF b.jd = a.jd
           THEN [nan |-> TRUE, ra |-> 0]
           ELSE [nan |-> FALSE,
                 ra  |-> EphRa(a) + ((EphRa(b) - EphRa(a)) * (jd[k] - a.jd))
                                       \div (b.jd - a.jd)]]

\* one pass of the loop of _get_ephemerides: the object's positions and mask,
\* or the exception raised
get_ephemerides_object(e, obj, jd) ==
    LET rows == eph_rows(e, obj, jd)
    IN  IF rows = <<>>
        THEN [raised |-> "ValueError"]
        ELSE LET eph_jd == [n \in DOMAIN rows |-> rows[n].jd]
                 i0 == [k \in DOMAIN jd |-> digitize(jd[k], eph_jd)]
                 m0 == get_mask(i0, jd, eph_jd)
                 i  == [k \in DOMAIN jd |-> IF m0[k] THEN 1 ELSE i0[k]]
                 dt == [k \in DOMAIN jd |-> jd[k] - Item(eph_jd, i[k] - 1)]
                 m  == [k \in DOMAIN jd |-> m0[k] \/ dt[k] > Day]
             IN  IF \E k \in DOMAIN jd : i[k] >= Len(eph_jd)
                 THEN [raised |-> "IndexError"]
                 ELSE [raised |-> "none", mask |-> m, eph |-> interpolate(rows, i, jd)]

\* _get_ephemerides(objects, jd): the loop stops at the first exception
RECURSIVE get_ephemerides_loop(_, _, _, _)
get_ephemerides_loop(st, e, objects, jd) ==
    IF objects = <<>> THEN st
    ELSE LET r == get_ephemerides_object(e, Head(objects), jd)
         IN  IF r.raised # "none"
             THEN [raised |-> r.raised, object |-> Head(objects)]
             ELSE get_ephemerides_loop(
                     [raised |-> "none",
                      mask |-> [o \in DOMAIN st.mask \cup {Head(objects)} |->
                                  IF o = Head(objects) THEN r.mask ELSE st.mask[o]],
                      eph |-> [o \in DOMAIN st.eph \cup {Head(objects)} |->
                                  IF o = Head(objects) THEN r.eph ELSE st.eph[o]]],
                     e, Tail(objects), jd)

get_ephemerides_result(e, objects, jd) ==
    get_ephemerides_loop([raised |-> "none", mask |-> <<>>, eph |-> <<>>], e, objects, jd)

\* a call of _get_ephemerides
get_ephemerides(objects, jd) ==
    /\ pc = "idle"
    /\ pc' = "done"
    /\ op' = [name |-> "_get_ephemerides", objects |-> objects, jd |-> jd,
              result |-> get_ephemerides_result(eph, objects, jd)]
    /\ UNCHANGED <<nights, obs, eph, found, projections, stacks, stale_files, run>>

(***************************************************************************)
(* SpecInterp: the interpolator, applied to every table of samples of the   *)
(* two objects on the grid and to every list of requested epochs.           *)
(***************************************************************************)
InitInterp ==
    /\ nights = {}
    /\ obs = {}
    /\ \E S \in SUBSET (Desgs \X SampleJds) :
          eph = {[desg |-> x[1], jd |-> x[2], val |-> "v0"] : x \in S}
    /\ found = {}
    /\ projections = {}
    /\ stacks = {}
    /\ stale_files = <<>>
    /\ pc = "idle"
    /\ run = NoRun
    /\ op = [name |-> "none"]

NextInterp ==
    \/ \E objects \in ObjectLists \ {<<>>}, jd \in JdLists : get_ephemerides(objects, jd)
    \/ Return

SpecInterp == InitInterp /\ [][NextInterp]_vars

(***************************************************************************)
(* fov_search with its tests.  run is the local state of the search:        *)
(* objects, jd (the epochs in the order the store returned them), i (the    *)
(* number of passes of the loop completed), mask and eph (the result of     *)
(* _get_ephemerides), found_objects, tests (what the last pass did for      *)
(* each object, in order) and accepted (the Detections of the completed     *)
(* passes).  found is the durable table: what has been committed.           *)
(***************************************************************************)

\* if d > 0.1: 0.1 rad, in milliradians
CoarseLimit == 100

\* if d[j] > 0.026: 0.026 rad, in milliradians
FineLimit == 26

\* the pixel bounds of _silicon_test
NAXIS1 == 3072

NAXIS2 == 3080

\* the dates a search is asked for: the dates of the nights and the day
\* before the first
SearchDates == 0..MaxDate

\* the ra column of an exposure: the quadrants of an epoch lie side by side,
\* the fields of the epochs far apart
QuadRa(pid) == 130 * (ObsJd(pid) - 1) + 16 * ((pid - 1) % 2)

\* what the ephemeris provider answers _silicon_test: no ephemeris, or the
\* precise position
HorizonsAnswers ==
    {[ok |-> FALSE, ra |-> 0, dec |-> 0, val |-> "v0"]}
      \cup {[ok |-> TRUE, ra |-> r, dec |-> 0, val |-> "v0"] : r \in {7, 9}}
      \cup {[ok |-> TRUE, ra |-> 7, dec |-> 10, val |-> "v0"]}

\* angular_separation of an interpolated position and a position of the
\* great circle; not a number when the interpolated position is not one
angular_separation(p, ra) ==
    IF p.nan THEN [nan |-> TRUE, d |-> 0]
    ELSE [nan |-> FALSE, d |-> IF p.ra >= ra THEN p.ra - ra ELSE ra - p.ra]

\* d > limit: False when d is not a number
Exceeds(d, limit) == ~d.nan /\ d.d > limit

RECURSIVE SeqSum(_)
SeqSum(s) == IF s = <<>> THEN 0 ELSE Head(s) + SeqSum(Tail(s))

\* spherical_mean of positions of the great circle
spherical_mean(ra) == SeqSum(ra) \div Len(ra)

\* d.argmin(): the first index of the minimum, the first index when the
\* separations are not numbers
argmin(d) ==
    IF d[1].nan THEN 1
    ELSE CHOOSE j \in DOMAIN d :
            /\ \A k \in DOMAIN d : d[j].d <= d[k].d
            /\ \A k \in DOMAIN d : k < j => d[k].d > d[j].d

\* wcs.all_world2pix: the tangent plane at the centre of the quadrant,
\* 200 pixels to the milliradian
world2pix(fov, ra, dec) ==
    [x |-> 1536 + 200 * (ra - QuadRa(fov.pid)), y |-> 1540 + 200 * dec]

\* _silicon_test(desg, fov): the branch of the provider's failure uses the
\* name jd, which the function does not define
silicon_test(desg, fov, answer) ==
    IF ~answer.ok
    THEN [raised |-> "NameError", hit |-> FALSE]
    ELSE LET p == world2pix(fov, answer.ra, answer.dec)
         IN  [raised |-> "none",
              hit |-> (p.x >= 0 /\ p.x <= NAXIS1 /\ p.y >= 0 /\ p.y <= NAXIS2)]

\* the provider is not asked
NoAnswer == [ok |-> FALSE, ra |-> 0, dec |-> 0, val |-> "v0"]

NoTest(obj, state, separations) ==
    [obj |-> obj, state |-> state, separations |-> separations,
     provider |-> FALSE, pid |-> None, answer |-> NoAnswer]

\* faulty variant: the separations to the exposures are computed before the
\* coarse filter
fov_search_test_late(obj, masked, pos, fovs, answer) ==
    IF masked THEN NoTest(obj, "masked", FALSE)
    ELSE LET field_ra == spherical_mean([n \in DOMAIN fovs |-> QuadRa(fovs[n].pid)])
             d == [n \in DOMAIN fovs |-> angular_separation(pos, QuadRa(fovs[n].pid))]
             j == argmin(d)
         IN  IF Exceeds(angular_separation(pos, field_ra), CoarseLimit)
             THEN NoTest(obj, "coarse", TRUE)
             ELSE IF Exceeds(d[j], FineLimit)
             THEN NoTest(obj, "fine", TRUE)
             ELSE LET t == silicon_test(obj, fovs[j], answer)
                  IN  [obj |-> obj,
                       state |-> IF t.raised # "none" THEN t.raised
                                 ELSE IF t.hit THEN "accepted" ELSE "footprint",
                       separations |-> TRUE, provider |-> TRUE,
                       pid |-> fovs[j].pid, answer |-> answer]

\* the body of the loop over the objects, for one object at one epoch: where
\* the pair ends (or the exception raised), whether the separations to the
\* exposures were computed, whether the provider was called, the exposure
\* given to _silicon_test and the provider's answer
fov_search_test(obj, masked, pos, fovs, answer) ==
    IF masked THEN NoTest(obj, "masked", FALSE)
    ELSE LET field_ra == spherical_mean([n \in DOMAIN fovs |-> QuadRa(fovs[n].pid)])
         IN  IF Exceeds(angular_separation(pos, field_ra), CoarseLimit)
             THEN NoTest(obj, "coarse", FALSE)
             ELSE LET d == [n \in DOMAIN fovs |->
                              angular_separation(pos, QuadRa(fovs[n].pid))]
                      j == argmin(d)
                  IN  IF Exceeds(d[j], FineLimit)
                      THEN NoTest(obj, "fine", TRUE)
                      ELSE LET t == silicon_test(obj, fovs[j], answer)
                           IN  [obj |-> obj,
                                state |-> IF t.raised # "none" THEN t.raised
                                          ELSE IF t.hit THEN "accepted" ELSE "footprint",
                                separations |-> TRUE, provider |-> TRUE,
                                pid |-> fovs[j].pid, answer |-> answer]

\* the loop over the objects at the epoch jd[i]; it ends at an exception
RECURSIVE fov_search_tests(_, _, _, _, _)
fov_search_tests(objects, i, r, fovs, answers) ==
    IF objects = <<>> THEN <<>>
    ELSE LET obj == Head(objects)
             t   == fov_search_test(obj, r.mask[obj][i], r.eph[obj][i], fovs, answers[obj])
         IN  IF t.state = "NameError" THEN <<t>>
             ELSE <<t>> \o fov_search_tests(Tail(objects), i, r, fovs, answers)

\* the Detections the tests of a pass give
TestHits(objects, tests) ==
    [obj \in Range(objects) |->
       IF \E n \in DOMAIN tests : tests[n].obj = obj /\ tests[n].state = "accepted"
       THEN LET n == CHOOSE n \in DOMAIN tests :
                        tests[n].obj = obj /\ tests[n].state = "accepted"
            IN  [pid |-> tests[n].pid, val |-> tests[n].answer.val]
       ELSE [pid |-> None, val |-> "v0"]]

\* the orders in which the store may return the distinct epochs
JdOrders(jds) ==
    {jd \in [1..Cardinality(jds) -> jds] :
        \A j \in DOMAIN jd : \A k \in DOMAIN jd : jd[j] = jd[k] => j = k}

\* fov_search up to the loop: the epochs, DateRangeError when there is
\* none, then _get_ephemerides and _get_quads.  queries lists the tables
\* read after obsnight; the report keeps the dates until the first pass
fov_search_start(start, end, objects, jd) ==
    /\ pc = "idle"
    /\ LET jds == fov_search_jd(obs, nights, start, end)
       IN  IF jds = {}
           THEN /\ jd = <<>>
                /\ pc' = "done"
                /\ op' = [name |-> "fov_search", start |-> start, end |-> end,
                          raised |-> "DateRangeError", queries |-> <<>>]
                /\ run' = run
           ELSE /\ jd \in JdOrders(jds)
                /\ LET r == get_ephemerides_result(eph, objects, jd)
                   IN  IF r.raised # "none"
                       THEN /\ pc' = "done"
                            /\ op' = [name |-> "fov_search", start |-> start, end |-> end,
                                      raised |-> r.raised, queries |-> <<"eph">>]
                            /\ run' = run
                       ELSE /\ pc' = "search"
                            /\ op' = [name |-> "fov_search", start |-> start, end |-> end,
                                      raised |-> "none", queries |-> <<"eph", "obs">>]
                            /\ run' = [objects |-> objects, jd |-> jd, i |-> 0,
                                       mask |-> r.mask, eph |-> r.eph,
                                       found_objects |-> [obj \in Range(objects) |-> 0],
                                       tests |-> <<>>, accepted |-> {}]
    /\ UNCHANGED <<nights, obs, eph, found, projections, stacks, stale_files>>

\* the tests of the next pass and the table found they leave in the
\* transaction
fov_search_next(answers) ==
    LET i     == run.i + 1
        fovs  == PidSeq(quads(obs, run.jd[i]))
        tests == fov_search_tests(run.objects, i, run, fovs, answers)
        st    == fov_search_objects([found |-> found, found_objects |-> run.found_objects,
                                     replaced |-> 0],
                                    run.objects, TestHits(run.objects, tests))
    IN  [tests |-> tests, found |-> st.found, found_objects |-> st.found_objects,
         raised |-> \E n \in DOMAIN tests : tests[n].state = "NameError"]

\* faulty variant: the pass does not commit
fov_search_commit_none(durable, written) == durable

\* self.db.commit() at the end of a pass
fov_search_commit(durable, written) == written

\* one pass of the loop over the epochs, with its commit
fov_search_pass(answers) ==
    /\ pc = "search"
    /\ run.i < Len(run.jd)
    /\ LET n == fov_search_next(answers)
       IN  /\ ~n.raised
           /\ \A r \in n.found : r.foundid <= MaxFoundId
           /\ found' = fov_search_commit(found, n.found)
           /\ run' = [run EXCEPT
                        !.i = run.i + 1,
                        !.found_objects = n.found_objects,
                        !.tests = n.tests,
                        !.accepted = run.accepted
                           \cup {[desg |-> n.tests[k].obj, pid |-> n.tests[k].pid,
                                  val |-> n.tests[k].answer.val] :
                                 k \in {k \in DOMAIN n.tests : n.tests[k].state = "accepted"}}]
    /\ op' = [name |-> "fov_search", raised |-> "none", queries |-> op.queries]
    /\ UNCHANGED <<nights, obs, eph, projections, stacks, stale_files, pc>>

\* a pass in which _silicon_test raises: the exception leaves fov_search,
\* and what the pass wrote is committed when ZChecker.__exit__ runs
\* (exited), lost when it does not
fov_search_raise(answers, exited) ==
    /\ pc = "search"
    /\ run.i < Len(run.jd)
    /\ LET n == fov_search_next(answers)
       IN  /\ n.raised
           /\ \A r \in n.found : r.foundid <= MaxFoundId
           /\ found' = IF exited THEN n.found ELSE found
           /\ op' = [name |-> "fov_search",
                     raised |-> "NameError", queries |-> op.queries,
                     i |-> run.i, epochs |-> Len(run.jd), tests |-> n.tests,
                     accepted |-> run.accepted]
    /\ pc' = "done"
    /\ run' = NoRun
    /\ UNCHANGED <<nights, obs, eph, projections, stacks, stale_files>>

\* the process is interrupted during the next pass, after the first k
\* objects, or between two passes (k = 0): what the pass wrote is committed
\* when ZChecker.__exit__ runs (exited); when it does not, it is lost and
\* the store is as it was between the passes
fov_search_interrupt(answers, k, exited) ==
    /\ pc = "search"
    /\ k \in 0..Len(run.objects)
    /\ k > 0 => run.i < Len(run.jd)
    /\ LET objects == SubSeq(run.objects, 1, k)
           tests == IF k = 0 THEN <<>>
                    ELSE fov_search_tests(objects, run.i + 1, run,
                                          PidSeq(quads(obs, run.jd[run.i + 1])), answers)
           st == fov_search_objects([found |-> found, found_objects |-> run.found_objects,
                                     replaced |-> 0],
                                    objects, TestHits(objects, tests))
       IN  /\ \A j \in DOMAIN tests : tests[j].state # "NameError"
           /\ \A r \in st.found : r.foundid <= MaxFoundId
           /\ found' = IF exited THEN st.found ELSE found
    /\ op' = [name |-> "fov_search",
              raised |-> "interrupted", queries |-> op.queries,
              i |-> run.i, epochs |-> Len(run.jd), accepted |-> run.accepted]
    /\ pc' = "done"
    /\ run' = NoRun
    /\ UNCHANGED <<nights, obs, eph, projections, stacks, stale_files>>

\* the end of fov_search, after the last pass
fov_search_finish ==
    /\ pc = "search"
    /\ run.i = Len(run.jd)
    /\ pc' = "done"
    /\ op' = [name |-> "fov_search",
              raised |-> "none", queries |-> op.queries,
              found_objects |-> run.found_objects, accepted |-> run.accepted]
    /\ run' = NoRun
    /\ UNCHANGED <<nights, obs, eph, found, projections, stacks, stale_files>>

(***************************************************************************)
(* SpecSearch: the matcher.  Each night is ingested once, the ephemerides   *)
(* of the two objects are refreshed over any range (9P on one track, 101P   *)
(* on the other), and the objects are searched for over any range of        *)
(* dates, the provider answering or failing, the run finishing, raising or  *)
(* being interrupted.                                                       *)
(***************************************************************************)
NextSearch ==
    \/ \E date \in Dates :
         /\ nightid(nights, date) = None
         /\ update_obs(date, Night(date))
    \/ \E start \in Jds, end \in Jds :
         /\ start <= end
         /\ \/ update_ephemeris(<<"9P">>, start, end, TRUE, [obj \in {"9P"} |-> "v0"])
            \/ update_ephemeris(<<"101P">>, start, end, TRUE, [obj \in {"101P"} |-> "v1"])
    \/ \E start \in SearchDates, end \in SearchDates, objects \in ObjectLists :
         /\ start <= end
         /\ \E jd \in JdOrders(fov_search_jd(obs, nights, start, end)) :
               fov_search_start(start, end, objects, jd)
    \/ \E answers \in [Range(run.objects) -> HorizonsAnswers] : fov_search_pass(answers)
    \/ \E answers \in [Range(run.objects) -> HorizonsAnswers], exited \in BOOLEAN :
         fov_search_raise(answers, exited)
    \/ \E k \in 0..Len(run.objects), exited \in BOOLEAN :
         /\ exited <=> k > 0
         /\ \E answers \in [Range(SubSeq(run.objects, 1, k)) -> HorizonsAnswers] :
               fov_search_interrupt(answers, k, exited)
    \/ fov_search_finish
    \/ Return

SpecSearch == Init /\ [][NextSearch]_vars

(***************************************************************************)
(* leading_num_key.  A string is the sequence of its characters.            *)
(***************************************************************************)

\* the longest designation sorted
MaxKeyLen == 4

\* the characters of the designations sorted
Chars == {"0", "1", "P"}

Strings == UNION {[1..n -> Chars] : n \in 0..MaxKeyLen}

DigitChars == <<"0", "1", "2", "3", "4", "5", "6", "7", "8", "9">>

\* str.isdigit() of one character
isdigit(c) == \E k \in DOMAIN DigitChars : DigitChars[k] = c

\* int(pfx) of a string of digits
RECURSIVE int(_)
int(pfx) ==
    IF pfx = <<>> THEN 0
    ELSE 10 * int(SubSeq(pfx, 1, Len(pfx) - 1))
           + (CHOOSE k \in DOMAIN DigitChars : DigitChars[k] = pfx[Len(pfx)]) - 1

\* for i in range(len(s)), from index i (the first character has index 0):
\* at a digit pfx takes the digit and sfx becomes s[i:]
RECURSIVE leading_num_loop(_, _, _, _)
leading_num_loop(s, i, pfx, sfx) ==
    IF i >= Len(s) \/ ~isdigit(s[i + 1]) THEN [pfx |-> pfx, sfx |-> sfx]
    ELSE leading_num_loop(s, i + 1, Append(pfx, s[i + 1]), SubSeq(s, i + 1, Len(s)))

leading_num_key(s) ==
    LET r == leading_num_loop(s, 0, <<>>, s)
    IN  <<IF Len(r.pfx) > 0 THEN int(r.pfx) ELSE 0, r.sfx>>

\* one call of leading_num_key
sort_key(s) ==
    /\ pc = "idle"
    /\ pc' = "done"
    /\ op' = [name |-> "leading_num_key", s |-> s, key |-> leading_num_key(s)]
    /\ UNCHANGED <<nights, obs, eph, found, projections, stacks, stale_files, run>>

NextKey ==
    \/ \E s \in Strings : sort_key(s)
    \/ Return

SpecKey == Init /\ [][NextKey]_vars

(***************************************************************************)
(* The summary of fov_search: the designations of found_objects, in the     *)
(* order the dictionary holds them (that of their first Detection), sorted  *)
(* with leading_num_key.                                                    *)
(***************************************************************************)

\* the most objects in a summary
MaxFound == 2

\* found_objects as the sequence of its keys: distinct designations
FoundLists ==
    {k \in UNION {[1..n -> Strings] : n \in 0..MaxFound} :
        \A i \in DOMAIN k : \A j \in DOMAIN k : k[i] = k[j] => i = j}

\* ord(c): the code point of a character, digits before letters
ord(c) ==
    IF isdigit(c) THEN 47 + (CHOOSE k \in DOMAIN DigitChars : DigitChars[k] = c)
    ELSE 80

\* a < b of two str: the first character that differs decides, a proper
\* prefix is smaller
RECURSIVE str_lt(_, _)
str_lt(a, b) ==
    IF b = <<>> THEN FALSE
    ELSE IF a = <<>> THEN TRUE
    ELSE IF Head(a) # Head(b) THEN ord(Head(a)) < ord(Head(b))
    ELSE str_lt(Tail(a), Tail(b))

\* a < b of two keys: tuples compare by their first component, then by
\* their second
key_lt(a, b) == a[1] < b[1] \/ (a[1] = b[1] /\ str_lt(a[2], b[2]))

\* sorted(found_objects, key=leading_num_key): a stable sort, an element
\* placed after those whose key is not greater than its own
RECURSIVE sorted(_)
sorted(k) ==
    IF k = <<>> THEN <<>>
    ELSE LET front == sorted(SubSeq(k, 1, Len(k) - 1))
             x     == k[Len(k)]
             n     == Cardinality({j \in DOMAIN front :
                          ~key_lt(leading_num_key(x), leading_num_key(front[j]))})
         IN  SubSeq(front, 1, n) \o <<x>> \o SubSeq(front, n + 1, Len(front))

\* the lines of the message of fov_search
fov_search_msg(found_objects) ==
    /\ pc = "idle"
    /\ pc' = "done"
    /\ op' = [name |-> "summary", found_objects |-> found_objects,
              msg |-> sorted(found_objects)]
    /\ UNCHANGED <<nights, obs, eph, found, projections, stacks, stale_files, run>>

NextSummary ==
    \/ \E found_objects \in FoundLists : fov_search_msg(found_objects)
    \/ Return

SpecSummary == Init /\ [][NextSummary]_vars

(***************************************************************************)
(* The claims                                                              *)
(***************************************************************************)

\* the rows a step appended to the staleness log
Appended == SubSeq(stale_files', Len(stale_files) + 1, Len(stale_files'))

\* the log only grew
LogExtended ==
    /\ Len(stale_files') >= Len(stale_files)
    /\ SubSeq(stale_files', 1, Len(stale_files)) = stale_files

CountIn(seq, x) == Cardinality({i \in DOMAIN seq : seq[i] = x})

CutoutFiles == {CutoutFile(d) : d \in Desgs}

StackFiles == {StackFile(d) : d \in Desgs}

\* C1: a step that deletes a row of nights removes that row, every obs row
\* of the night and every found row of one of these exposures, and leaves
\* the other rows of obs and found alone; the staleness log is extended by
\* exactly one 'cutout path' row per removed found row and non-null
\* archivefile.  The post-state of the one step holds neither the night
\* nor any of its exposures or their detections.
C1_DeleteNightCascades ==
    [][op'.name = "delete_nights" =>
         LET id         == op'.nightid
             gone_obs   == {o \in obs : o.nightid = id}
             gone_found == {f \in found : \E o \in gone_obs : o.pid = f.pid}
         IN  /\ nights' = {n \in nights : n.nightid # id}
             /\ obs' = obs \ gone_obs
             /\ found' = found \ gone_found
             /\ LogExtended
             /\ \A a \in CutoutFiles :
                   CountIn(Appended, [path |-> "cutout path", archivefile |-> a])
                     = Cardinality({f \in gone_found : f.archivefile = a})
             /\ \A i \in DOMAIN Appended :
                   Appended[i].path = "cutout path" => Appended[i].archivefile # NULL
      ]_vars

\* C1 witness: a night of two exposures was deleted, one Detection with an
\* archived cutout went with it, and the cutout is in the log
C1_Witness ==
    /\ pc = "done"
    /\ op.name = "delete_nights"
    /\ op.changes.obs = 2
    /\ op.changes.found = 1
    /\ \E i \in DOMAIN stale_files :
          stale_files[i] = [path |-> "cutout path", archivefile |-> CutoutFile("9P")]

\* C2: every obs row's nightid is the nightid of a row of nights (so every
\* exposure is in the obsnight view).
C2_ObsHasNight ==
    \A o \in obs : \E n \in nights : n.nightid = o.nightid

\* C3: every found row's pid is the pid of a row of obs.
C3_FoundHasObs ==
    \A f \in found : \E o \in obs : o.pid = f.pid

\* C3 witness: an exposure with a Detection was deleted while a Detection
\* of another exposure stays
C3_Witness ==
    /\ pc = "done"
    /\ op.name = "delete_obs"
    /\ op.changes.found = 1
    /\ found # {}

\* C4: (desg, pid) is unique in found in every state; and after an epoch
\* of a search, every Detection written at that epoch is the one row of
\* its (desg, pid) and carries the values written.
C4_FoundUnique ==
    /\ [](\A r1 \in found : \A r2 \in found :
             (r1.desg = r2.desg /\ r1.pid = r2.pid) => r1 = r2)
    /\ [][(pc = "search" /\ pc' = "search" /\ run'.todo # run.todo) =>
            \A obj \in Range(run'.objects) :
               run'.hits[obj].pid # None =>
                  /\ Cardinality({r \in found' : r.desg = obj
                                     /\ r.pid = run'.hits[obj].pid}) = 1
                  /\ \A r \in found' :
                        (r.desg = obj /\ r.pid = run'.hits[obj].pid)
                           => r.val = run'.hits[obj].val
          ]_vars

\* C4 witness: a search has overwritten a Detection with other values
C4_Witness ==
    /\ pc = "search"
    /\ run.replaced = 1
    /\ \E obj \in Range(run.objects) :
          /\ run.hits[obj].pid # None
          /\ run.hits[obj].val = "v1"
          /\ \E r \in found : r.desg = obj /\ r.pid = run.hits[obj].pid /\ r.val = "v1"

\* C5: a step of clean_found, of a deletion from obs or of a deletion from
\* nights only removes rows of found, and extends the staleness log by
\* exactly: one 'cutout path' row per removed found row with a non-null
\* archivefile, carrying it, and one 'stack path' row per stacks row of a
\* removed found row with a non-null stackfile, carrying it.
C5_DeletionLogsStaleFiles ==
    [][op'.name \in {"clean_found", "delete_obs", "delete_nights"} =>
         LET gone == found \ found'
         IN  /\ found' \subseteq found
             /\ LogExtended
             /\ \A a \in CutoutFiles :
                   CountIn(Appended, [path |-> "cutout path", archivefile |-> a])
                     = Cardinality({f \in gone : f.archivefile = a})
             /\ \A b \in StackFiles :
                   CountIn(Appended, [path |-> "stack path", archivefile |-> b])
                     = Cardinality({k \in stacks : /\ k.stackfile = b
                                                   /\ \E f \in gone : f.foundid = k.foundid})
             /\ Len(Appended)
                  = Cardinality({f \in gone : f.archivefile # NULL})
                    + Cardinality({k \in stacks : /\ k.stackfile # NULL
                                                  /\ \E f \in gone : f.foundid = k.foundid})
      ]_vars

\* C5 witness: clean_found has removed a Detection that had an archived
\* cutout and a stack file, and both files are in the log
C5_Witness ==
    /\ pc = "done"
    /\ op.name = "clean_found"
    /\ op.n = <<1>>
    /\ \E i \in DOMAIN stale_files : stale_files[i].path = "cutout path"
    /\ \E i \in DOMAIN stale_files : stale_files[i].path = "stack path"

\* C6: every projections row and every stacks row has the foundid of a row
\* of found.
C6_ArtifactsHaveFound ==
    /\ \A j \in projections : \E f \in found : f.foundid = j.foundid
    /\ \A k \in stacks : \E f \in found : f.foundid = k.foundid

\* C7: pid is unique in obs in every state; a step of update_obs leaves
\* every row obs held unchanged and adds one row, of the new night, for
\* each exposure of the provider's table whose pid was not stored: so a
\* call whose exposures are all stored leaves obs as it was.
C7_IngestionIdempotent ==
    /\ [](\A r1 \in obs : \A r2 \in obs : r1.pid = r2.pid => r1 = r2)
    /\ [][op'.name = "update_obs" =>
            LET tab    == op'.tab
                stored == {o.pid : o \in obs}
                fresh  == {i \in DOMAIN tab : tab[i].pid \notin stored}
            IN  /\ obs \subseteq obs'
                /\ obs' \ obs = {[nightid |-> nightid(nights', op'.date),
                                  pid |-> tab[i].pid, obsjd |-> tab[i].obsjd,
                                  val |-> tab[i].val] : i \in fresh}
                /\ (fresh = {} => obs' = obs)
          ]_vars

\* C7 witness: update_obs has ingested an exposure that was stored with
\* other values, and the stored values are still there
C7_Witness ==
    /\ pc = "done"
    /\ op.name = "update_obs"
    /\ \E i \in DOMAIN op.tab : \E o \in obs :
          o.pid = op.tab[i].pid /\ o.val # op.tab[i].val

\* the object was refreshed by the call: it was not skipped in the
\* verifying mode
Refreshed(obj) ==
    ~(~op'.update /\ Cardinality({r \in eph : r.desg = obj /\ r.jd >= op'.start
                                                /\ r.jd <= op'.end}) > 2)

\* C8: when the provider fails for an object that update_ephemeris
\* refreshes, the samples of the object within [start, end] that were
\* stored before the call are stored after it.
C8_FailedRefreshKeepsSamples ==
    [][op'.name = "update_ephemeris" =>
         \A obj \in Range(op'.objects) :
            (Refreshed(obj) /\ op'.resp[obj] = "ZCheckerError") =>
                {r \in eph : r.desg = obj /\ r.jd >= op'.start /\ r.jd <= op'.end}
                   \subseteq eph'
      ]_vars

\* C9: (desg, jd) is unique in eph in every state; after update_ephemeris
\* has refreshed an object (not skipped in the verifying mode) with an
\* answer of the provider, the samples of the object within [start, end]
\* are exactly the provider's, the samples of the object outside the range
\* are unchanged, and so are the samples of the objects not in the call.
C9_RefreshReplacesRange ==
    /\ [](\A r1 \in eph : \A r2 \in eph :
             (r1.desg = r2.desg /\ r1.jd = r2.jd) => r1 = r2)
    /\ [][op'.name = "update_ephemeris" =>
            /\ \A obj \in Range(op'.objects) :
                  (Refreshed(obj) /\ op'.resp[obj] # "ZCheckerError") =>
                     /\ {r \in eph' : r.desg = obj /\ r.jd >= op'.start
                                                    /\ r.jd <= op'.end}
                          = {[desg |-> obj, jd |-> j, val |-> op'.resp[obj]] :
                               j \in op'.start .. op'.end}
                     /\ {r \in eph' : r.desg = obj /\ (r.jd < op'.start \/ r.jd > op'.end)}
                          = {r \in eph : r.desg = obj /\ (r.jd < op'.start \/ r.jd > op'.end)}
            /\ \A d \in Desgs \ Range(op'.objects) :
                  {r \in eph' : r.desg = d} = {r \in eph : r.desg = d}
          ]_vars

\* C9 witness: an object was refreshed over a range; it has a sample with
\* the other value outside the range, and the other object has samples
C9_Witness ==
    /\ pc = "done"
    /\ op.name = "update_ephemeris"
    /\ op.objects = <<"9P">>
    /\ op.resp["9P"] = "v1"
    /\ op.updated = 1
    /\ \E r \in eph : r.desg = "9P" /\ r.jd = op.start /\ r.val = "v1"
    /\ \E r \in eph : r.desg = "9P" /\ r.jd > op.end /\ r.val = "v0"
    /\ \E r \in eph : r.desg = "101P"

\* the epoch is within the bounds given (None: no bound)
InBounds(jd, start, end) ==
    /\ (start = None \/ jd >= start)
    /\ (end = None \/ jd <= end)

\* C10: a step of clean_ephemeris removes from eph exactly the samples of
\* the listed designations with jd within the bounds given, and a step of
\* clean_found removes from found exactly the Detections of the listed
\* designations whose exposure has obsjd within the bounds given (every
\* Detection of theirs when no bound is given); the rows of the other
\* tables among eph, found, obs and nights are unchanged, and the count
\* reported for each object is the number of its rows removed.
C10_CleanRemovesRange ==
    /\ [][op'.name = "clean_ephemeris" =>
            LET gone(obj) == {r \in eph : r.desg = obj
                                 /\ InBounds(r.jd, op'.start, op'.end)}
            IN  /\ eph' = eph \ UNION {gone(op'.objects[i]) : i \in DOMAIN op'.objects}
                /\ UNCHANGED <<found, obs, nights>>
                /\ Len(op'.n) = Len(op'.objects)
                /\ \A i \in DOMAIN op'.objects :
                      /\ op'.n[i] = Cardinality(gone(op'.objects[i]))
                      /\ op'.n[i] = Cardinality({r \in eph : r.desg = op'.objects[i]})
                                     - Cardinality({r \in eph' : r.desg = op'.objects[i]})
          ]_vars
    /\ [][op'.name = "clean_found" =>
            LET gone(obj) ==
                   {f \in found : /\ f.desg = obj
                                  /\ \/ (op'.start = None /\ op'.end = None)
                                     \/ \E o \in obs : /\ o.pid = f.pid
                                                       /\ InBounds(o.obsjd, op'.start,
                                                                   op'.end)}
            IN  /\ found' = found \ UNION {gone(op'.objects[i]) : i \in DOMAIN op'.objects}
                /\ UNCHANGED <<eph, obs, nights>>
                /\ Len(op'.n) = Len(op'.objects)
                /\ \A i \in DOMAIN op'.objects :
                      /\ op'.n[i] = Cardinality(gone(op'.objects[i]))
                      /\ op'.n[i] = Cardinality({f \in found : f.desg = op'.objects[i]})
                                     - Cardinality({f \in found' : f.desg = op'.objects[i]})
          ]_vars

\* C10 witness: clean_found, given both bounds, has removed a Detection of
\* the listed object and left one of its Detections and one of the other
\* object; the ephemeris table holds samples
C10_Witness ==
    /\ pc = "done"
    /\ op.name = "clean_found"
    /\ op.objects = <<"9P">>
    /\ op.start # None
    /\ op.end # None
    /\ op.n = <<1>>
    /\ \E f \in found : f.desg = "9P"
    /\ eph # {}

\* the epochs of the stored samples of the object
Stored(obj) == {r.jd : r \in {x \in eph : x.desg = obj}}

\* the samples the call fetched for the object
Fetched(obj, jd) ==
    {s \in Stored(obj) : s > SeqMin(jd) - Day /\ s < SeqMax(jd) + Day}

\* C11: when _get_ephemerides returns, every requested epoch strictly
\* between two consecutive stored samples of the object that are more than
\* one day apart is masked.
C11_GapMasked ==
    [][(op'.name = "_get_ephemerides" /\ op'.result.raised = "none") =>
         \A obj \in Range(op'.objects) : \A k \in DOMAIN op'.jd :
            (\E s1 \in Stored(obj), s2 \in Stored(obj) :
                /\ s1 < op'.jd[k] /\ op'.jd[k] < s2
                /\ s2 - s1 > Day
                /\ \A s \in Stored(obj) : ~(s1 < s /\ s < s2))
              => op'.result.mask[obj][k]
      ]_vars

\* C12: when _get_ephemerides returns, every requested epoch earlier than
\* the earliest or later than the latest sample fetched for the object is
\* masked.
C12_NoBracketMasked ==
    [][(op'.name = "_get_ephemerides" /\ op'.result.raised = "none") =>
         \A obj \in Range(op'.objects) : \A k \in DOMAIN op'.jd :
            (\/ op'.jd[k] < Min(Fetched(obj, op'.jd))
             \/ op'.jd[k] > Max(Fetched(obj, op'.jd)))
              => op'.result.mask[obj][k]
      ]_vars

\* C13: _get_ephemerides raises nothing, and returns for every object a
\* sequence of positions and a mask, one entry per requested epoch.
C13_NeverRaises ==
    [][op'.name = "_get_ephemerides" =>
         /\ op'.result.raised = "none"
         /\ \A obj \in Range(op'.objects) :
               /\ DOMAIN op'.result.mask[obj] = DOMAIN op'.jd
               /\ DOMAIN op'.result.eph[obj] = DOMAIN op'.jd
      ]_vars

\* C14 as stated: a search over dates start..end with no exposure on a
\* night dated start..end raises DateRangeError before it queries the
\* ephemerides or the provider, and leaves the store unchanged.
C14_NoExposureRaises ==
    [][(/\ pc = "idle"
        /\ op'.name = "fov_search"
        /\ obsnight(obs, nights, op'.start, op'.end) = {})
       => (/\ op'.raised = "DateRangeError"
           /\ op'.queries = <<>>
           /\ <<DB, eph>>' = <<DB, eph>>)]_vars

\* C14: a search over dates start..end with no exposure on a night dated
\* from start to the day after end raises DateRangeError before it queries
\* the ephemerides or the provider, and leaves the store unchanged.
C14_NoExposureToDayAfterEndRaises ==
    [][(/\ pc = "idle"
        /\ op'.name = "fov_search"
        /\ obsnight(obs, nights, op'.start, op'.end + 1) = {})
       => (/\ op'.raised = "DateRangeError"
           /\ op'.queries = <<>>
           /\ <<DB, eph>>' = <<DB, eph>>)]_vars

\* a search has raised DateRangeError over a store that holds exposures and
\* ephemerides
C14_Witness ==
    /\ pc = "done"
    /\ op.name = "fov_search"
    /\ op.raised = "DateRangeError"
    /\ obs # {}
    /\ eph # {}

\* the table found holds the Detection a
Kept(f, a) == \E r \in f : r.desg = a.desg /\ r.pid = a.pid /\ r.val = a.val

\* C15: when a search run is interrupted, or ends with an exception, every
\* Detection accepted in a completed pass over an epoch is in the store.
C15_InterruptKeepsCompleted ==
    [][(/\ pc = "search"
        /\ pc' = "done"
        /\ op'.raised \in {"interrupted", "NameError"})
       => \A a \in op'.accepted : Kept(found', a)]_vars

\* a run has been interrupted before its last epoch, after a pass that
\* accepted a Detection
C15_Witness ==
    /\ pc = "done"
    /\ op.name = "fov_search"
    /\ op.raised = "interrupted"
    /\ op.i < op.epochs
    /\ op.accepted # {}
    /\ \A a \in op.accepted : Kept(found, a)

\* a step of a search that evaluates objects at the epoch run.jd[run.i + 1]:
\* a pass, or a pass that raises
TestStep ==
    /\ pc = "search"
    /\ \/ pc' = "search"
       \/ pc' = "done" /\ op'.raised = "NameError"

\* what the step did for each object it evaluated
StepTests == IF pc' = "search" THEN run'.tests ELSE op'.tests

\* the exposures of an epoch, in the order of _get_quads, and its field
\* centre
Fovs(jd) == PidSeq(quads(obs, jd))

FieldRa(jd) == spherical_mean([n \in DOMAIN Fovs(jd) |-> QuadRa(Fovs(jd)[n].pid)])

\* the Detections of an object at an epoch
Detections(f, obj, jd) == {r \in f : r.desg = obj /\ ObsJd(r.pid) = jd}

\* C16: each pass of a search is over an epoch later than the epoch of
\* every pass before it.
C16_EpochsAscending ==
    [][(pc = "search" /\ pc' = "search")
       => \A k \in 1..run.i : run.jd[k] < run.jd[run.i + 1]]_vars

\* C17: an unmasked object whose interpolated position is more than 0.1 rad
\* from the field centre of the epoch is rejected with no separation to an
\* exposure computed, no call to the provider and no Detection written for
\* it at that epoch.
C17_CoarseRejectShortCircuits ==
    [][TestStep
       => \A n \in DOMAIN StepTests :
             LET t  == StepTests[n]
                 jd == run.jd[run.i + 1]
             IN  (/\ ~run.mask[t.obj][run.i + 1]
                  /\ Exceeds(angular_separation(run.eph[t.obj][run.i + 1], FieldRa(jd)),
                             CoarseLimit))
                 => (/\ t.state = "coarse"
                     /\ ~t.separations
                     /\ ~t.provider
                     /\ Detections(found', t.obj, jd) = Detections(found, t.obj, jd))]_vars

\* a pass has rejected an object more than 0.1 rad from the field centre
C17_Witness ==
    /\ pc = "search"
    /\ run.i >= 1
    /\ \E n \in DOMAIN run.tests :
          LET t == run.tests[n]
          IN  /\ ~run.mask[t.obj][run.i]
              /\ Exceeds(angular_separation(run.eph[t.obj][run.i], FieldRa(run.jd[run.i])),
                         CoarseLimit)
              /\ t.state = "coarse"

\* the precise position projects onto the pixels of the exposure
Inside(fov, answer) ==
    LET p == world2pix(fov, answer.ra, answer.dec)
    IN  p.x >= 0 /\ p.x <= NAXIS1 /\ p.y >= 0 /\ p.y <= NAXIS2

\* the rows of found a step wrote for an object at an epoch
Written(obj, jd) == Detections(found', obj, jd) \ Detections(found, obj, jd)

\* C18: for an object that passes the coarse filter at an epoch, the
\* footprint test is run on the exposure of minimum separation, at most one
\* Detection is written for the object at the epoch, and with two exposures
\* at the epoch and the precise position inside the footprint of one of them
\* only, exactly one Detection is written and it references that exposure.
C18_OneDetectionOnContainingExposure ==
    [][(pc = "search" /\ pc' = "search")
       => \A n \in DOMAIN run'.tests :
             LET t    == run'.tests[n]
                 jd   == run.jd[run.i + 1]
                 fovs == Fovs(jd)
                 pos  == run.eph[t.obj][run.i + 1]
             IN  (/\ ~run.mask[t.obj][run.i + 1]
                  /\ ~Exceeds(angular_separation(pos, FieldRa(jd)), CoarseLimit))
                 => /\ t.provider
                       => \A k \in DOMAIN fovs :
                             angular_separation(pos, QuadRa(t.pid)).d
                                <= angular_separation(pos, QuadRa(fovs[k].pid)).d
                    /\ Cardinality(Written(t.obj, jd)) <= 1
                    /\ \A a \in DOMAIN fovs :
                          (/\ Len(fovs) = 2
                           /\ t.provider
                           /\ t.answer.ok
                           /\ Inside(fovs[a], t.answer)
                           /\ \A b \in DOMAIN fovs : b # a => ~Inside(fovs[b], t.answer))
                          => \E r \in Written(t.obj, jd) :
                                /\ Written(t.obj, jd) = {r}
                                /\ r.pid = fovs[a].pid]_vars

\* the terminal states of an (object, epoch) pair
TerminalStates == {"masked", "coarse", "fine", "footprint", "accepted"}

\* the exposure of an epoch nearest to a position
Nearest(jd, pos) ==
    Fovs(jd)[argmin([n \in DOMAIN Fovs(jd) |->
                       angular_separation(pos, QuadRa(Fovs(jd)[n].pid))])]

\* C19: a step that evaluates the objects at an epoch takes an epoch not
\* evaluated before in the run, evaluates every object of the run once,
\* leaves each in one of the five terminal states, and writes a Detection
\* for an object if and only if the object is unmasked, its separation from
\* the field centre does not exceed 0.1 rad, that from the nearest exposure
\* does not exceed 0.026 rad, and the precise position projects onto the
\* pixels of that exposure.
C19_EveryPairTerminal ==
    [][TestStep
       => LET i  == run.i + 1
              jd == run.jd[i]
          IN  /\ \A k \in 1..run.i : run.jd[k] # jd
              /\ Len(StepTests) = Len(run.objects)
              /\ \A n \in DOMAIN StepTests :
                    LET t   == StepTests[n]
                        pos == run.eph[t.obj][i]
                    IN  /\ t.obj = run.objects[n]
                        /\ t.state \in TerminalStates
                        /\ (Written(t.obj, jd) # {})
                             <=> (/\ ~run.mask[t.obj][i]
                                  /\ ~Exceeds(angular_separation(pos, FieldRa(jd)),
                                              CoarseLimit)
                                  /\ ~Exceeds(angular_separation(
                                                 pos, QuadRa(Nearest(jd, pos).pid)),
                                              FineLimit)
                                  /\ t.answer.ok
                                  /\ Inside(Nearest(jd, pos), t.answer))]_vars

\* the length of the maximal leading run of digits of a string
LeadingDigits(s) ==
    Max({k \in 0..Len(s) : \A j \in 1..k : isdigit(s[j])})

\* C20: leading_num_key(s) is the pair of the integer value of the maximal
\* leading run of digits of s (0 when there is none) and the part of s that
\* follows the run.
C20_KeySplitsAtDigits ==
    [][op'.name = "leading_num_key"
       => LET s == op'.s
              n == LeadingDigits(s)
          IN  /\ op'.key[1] = int(SubSeq(s, 1, n))
              /\ op'.key[2] = SubSeq(s, n + 1, Len(s))]_vars

\* C22: when the provider returns no ephemeris for an object at the epoch of
\* the footprint test, the pair is a footprint reject, no Detection is
\* written for it, and the search goes on to the commit of the epoch.
C22_ProviderFailureIsReject ==
    [][TestStep
       => \A n \in DOMAIN StepTests :
             LET t == StepTests[n]
             IN  (t.provider /\ ~t.answer.ok)
                 => /\ t.state = "footprint"
                    /\ Written(t.obj, run.jd[run.i + 1]) = {}
                    /\ pc' = "search"]_vars

\* the leading integer of a designation and the text after its digits
LeadingInt(s) == int(SubSeq(s, 1, LeadingDigits(s)))

Rest(s) == SubSeq(s, LeadingDigits(s) + 1, Len(s))

\* C21: the summary lists the objects found; of two designations with
\* different leading integers the one with the smaller integer comes first,
\* and two with equal leading integers are in the order of the text after
\* their digits.
C21_SummaryNaturalOrder ==
    [][op'.name = "summary"
       => /\ Range(op'.msg) = Range(op'.found_objects)
          /\ Len(op'.msg) = Len(op'.found_objects)
          /\ \A j \in DOMAIN op'.msg : \A k \in DOMAIN op'.msg :
                j < k
                => LET a == op'.msg[j]
                       b == op'.msg[k]
                   IN  /\ LeadingInt(a) <= LeadingInt(b)
                       /\ LeadingInt(a) = LeadingInt(b)
                             => ~str_lt(Rest(b), Rest(a))]_vars

====
